---- MODULE Spec2Model ----
(***************************************************************************)
(* Model of burner/burner.py: the Burner constructor (subtitle source      *)
(* resolution and probing) and Burner.burn (the frame loop that selects a  *)
(* subtitle per frame, renders it or takes the blank frame, and pipes the  *)
(* bytes to the encoder subprocess inside try/finally).                    *)
(*                                                                         *)
(* Times: a token's start is held as an integer count of 1/StartUnit       *)
(* seconds, so start * fps is the exact rational (start * fps)/StartUnit   *)
(* and Python's round() (round-half-to-even) is computed on it exactly.    *)
(***************************************************************************)
EXTENDS Integers, Sequences, FiniteSets, TLC

VARIABLES
    pc,           \* position: constructor, then the statements of burn
    transcript,   \* the constructor's transcript argument (its kind)
    loaderCalls,  \* the loaders the constructor has called, in order
    subtitles,    \* self.subtitles: sequence of [text, start, nan]
    probe,        \* self.probe: [fps, frame_count, size]
    proc,         \* ffmpeg_process: "none", "running", "waited"
    stdin,        \* ffmpeg_process.stdin: "none", "open", "closed"
    blank,        \* blank_frame_bytes: number of zero bytes, -1 = unset
    n,            \* the loop variable of burn
    selected,     \* per iteration started: subtitle_token (0 = None) and t
    renderCalls,  \* number of calls of _get_text_image
    writes,       \* every call of stdin.write, in order
    exc           \* the exception in flight, newest first (__context__ chain)

vars == <<pc, transcript, loaderCalls, subtitles, probe, proc, stdin, blank,
          n, selected, renderCalls, writes, exc>>

----------------------------------------------------------------------------
(* Bounds of the model *)

MaxSubs == 3
MaxStart == 2
StartUnit == 2
MaxFps == 2
MaxFrames == 3

(* Program constant: the RGBA channel count of the blank frame *)
Channels == 4

Sizes == {<<3, 2>>}

(* Start times run from -1/StartUnit s to MaxStart/StartUnit s; the k-th    *)
(* entry of a transcript carries the k-th word, so entries differ in text. *)
Starts == (0 - 1)..MaxStart

(* A start may also be the float NaN: such a token has nan = TRUE and its  *)
(* start field holds no value (0). NaNCode is its place among the choices. *)
NaNCode == MaxStart + 1

Word(k) == "w" \o ToString(k)

MakeToken(i, c) ==
    [text |-> Word(i), start |-> IF c = NaNCode THEN 0 ELSE c,
     nan |-> (c = NaNCode)]

SubtitleSeqs ==
    UNION {{[i \in 1..k |-> MakeToken(i, st[i])] :
              st \in [1..k -> Starts \cup {NaNCode}]} : k \in 0..MaxSubs}

Probes == [fps : 1..MaxFps, frame_count : 0..MaxFrames, size : Sizes]

NoProbe == [fps |-> 0, frame_count |-> 0, size |-> <<0, 0>>]

TranscriptKinds == {"path", "raw", "none", "other"}

----------------------------------------------------------------------------
(* Burner.__init__ *)

IsPathLike(t) == t = "path"

TypeIsRawTranscript(t) == t = "raw"

ChosenLoader(t) ==
    IF IsPathLike(t) THEN "load_subtitles_from_file"
    ELSE IF TypeIsRawTranscript(t) THEN "load_subtitles_from_raw_transcript"
    ELSE "transcribe"

CtorInit ==
    /\ pc = "new"
    /\ transcript \in TranscriptKinds
    /\ loaderCalls = <<>>
    /\ subtitles = <<>>
    /\ probe = NoProbe
    /\ proc = "none"
    /\ stdin = "none"
    /\ blank = -1
    /\ n = 0
    /\ selected = <<>>
    /\ renderCalls = 0
    /\ writes = <<>>
    /\ exc = <<>>

CtorLoad ==
    /\ pc = "new"
    /\ \E subs \in SubtitleSeqs : subtitles' = subs
    /\ loaderCalls' = Append(loaderCalls, ChosenLoader(transcript))
    /\ pc' = "probe"
    /\ UNCHANGED <<transcript, probe, proc, stdin, blank, n, selected,
                   renderCalls, writes, exc>>

CtorLoadFail ==
    /\ pc = "new"
    /\ loaderCalls' = Append(loaderCalls, ChosenLoader(transcript))
    /\ exc' = <<"loader">>
    /\ pc' = "ctor_raised"
    /\ UNCHANGED <<transcript, subtitles, probe, proc, stdin, blank, n,
                   selected, renderCalls, writes>>

CtorProbe ==
    /\ pc = "probe"
    /\ \E p \in Probes : probe' = p
    /\ pc' = "constructed"
    /\ UNCHANGED <<transcript, loaderCalls, subtitles, proc, stdin, blank, n,
                   selected, renderCalls, writes, exc>>

CtorProbeFail ==
    /\ pc = "probe"
    /\ exc' = <<"probe">>
    /\ pc' = "ctor_raised"
    /\ UNCHANGED <<transcript, loaderCalls, subtitles, probe, proc, stdin,
                   blank, n, selected, renderCalls, writes>>

CtorNext == CtorLoad \/ CtorLoadFail \/ CtorProbe \/ CtorProbeFail

CtorSpec == CtorInit /\ [][CtorNext]_vars

----------------------------------------------------------------------------
(* Python's round() on the exact rational p/q, q > 0: nearest integer,     *)
(* ties to the even one.                                                   *)

RoundHalfEven(p, q) ==
    LET f == p \div q
        r == p % q
    IN  IF 2 * r < q THEN f
        ELSE IF 2 * r > q THEN f + 1
        ELSE IF f % 2 = 0 THEN f ELSE f + 1

(* round(nan) raises ValueError: the generator of lines 104-108 rounds     *)
(* every token's start, so max() raises when any start is NaN              *)
SelectionRaises(subs) == \E i \in 1..Len(subs) : subs[i].nan

(* round(token.start * self.probe.fps) *)
StartFrame(start, fps) == RoundHalfEven(start * fps, StartUnit)

(* The generator of line 104-108: the indices of the tokens that qualify   *)
(* for frame k, in sequence order.                                         *)
RECURSIVE CandidatesFrom(_, _, _, _)
CandidatesFrom(subs, i, k, fps) ==
    IF i > Len(subs) THEN <<>>
    ELSE IF k >= StartFrame(subs[i].start, fps)
         THEN <<i>> \o CandidatesFrom(subs, i + 1, k, fps)
         ELSE CandidatesFrom(subs, i + 1, k, fps)

(* Variant: the comparison one frame early (n + 1 >= start frame) *)
CandidatesOneEarly(subs, k, fps) == CandidatesFrom(subs, 1, k + 1, fps)

(* Variant: a token qualifies only on its own start frame (n == ...) *)
RECURSIVE CandidatesOnStartFrom(_, _, _, _)
CandidatesOnStartFrom(subs, i, k, fps) ==
    IF i > Len(subs) THEN <<>>
    ELSE IF k = StartFrame(subs[i].start, fps)
         THEN <<i>> \o CandidatesOnStartFrom(subs, i + 1, k, fps)
         ELSE CandidatesOnStartFrom(subs, i + 1, k, fps)

CandidatesOnStart(subs, k, fps) == CandidatesOnStartFrom(subs, 1, k, fps)

(* Variant: the comparison strict (n > start frame) *)
CandidatesStrict(subs, k, fps) == CandidatesFrom(subs, 1, k - 1, fps)

Candidates(subs, k, fps) == CandidatesFrom(subs, 1, k, fps)

(* Variant: no key, the last qualifying token wins (a transcript taken to  *)
(* be sorted)                                                              *)
PyMaxLast(subs, cands, best) ==
    IF cands = <<>> THEN best ELSE cands[Len(cands)]

(* max(..., key=start, default=None): the first item whose key is not      *)
(* exceeded; an item replaces the best so far only when strictly greater.  *)
(* 0 stands for None.                                                      *)
RECURSIVE PyMax(_, _, _)
PyMax(subs, cands, best) ==
    IF cands = <<>> THEN best
    ELSE LET i == Head(cands)
         IN  PyMax(subs, Tail(cands),
                   IF best = 0 \/ subs[i].start > subs[best].start
                   THEN i ELSE best)

SelectToken(subs, k, fps) == PyMax(subs, Candidates(subs, k, fps), 0)

(* Variant: the start frame rounded half up instead of with round() *)
ElapsedHalfUp(k, start, fps) ==
    [num |-> k - ((2 * start * fps + StartUnit) \div (2 * StartUnit)),
     den |-> fps]

(* t = (n - start_frame) / fps, kept as the exact fraction num/den *)
Elapsed(k, start, fps) == [num |-> k - StartFrame(start, fps), den |-> fps]

(* Variant: the blank frame sized by the fixed 1080x1920 geometry of the   *)
(* encoder command instead of the probed size                              *)
BlankFrameBytesFixed(size) == 1080 * 1920 * Channels

(* np.zeros((size[0], size[1], 4), dtype=uint8).tobytes(): its length *)
BlankFrameBytes(size) == size[1] * size[2] * Channels

NoElapsed == [num |-> 0, den |-> 1]

(* subtitle_token of frame k and, when there is one, the t handed to       *)
(* animations.pop                                                          *)
Selection(subs, tok, k, fps) ==
    [tok |-> tok,
     t |-> IF tok # 0 THEN Elapsed(k, subs[tok].start, fps) ELSE NoElapsed]

(* The bytes handed to stdin.write for frame k with selection tok *)
FrameBytes(subs, tok, k, p, blankLen) ==
    IF tok # 0
    THEN [kind |-> "text", tok |-> tok, text |-> subs[tok].text,
          start |-> subs[tok].start,
          t |-> Elapsed(k, subs[tok].start, p.fps),
          len |-> p.size[1] * p.size[2] * Channels]
    ELSE [kind |-> "blank", tok |-> 0, text |-> "", start |-> 0,
          t |-> NoElapsed, len |-> blankLen]

----------------------------------------------------------------------------
(* Burner.burn, from a constructed Burner *)

Init ==
    /\ pc = "constructed"
    /\ transcript \in TranscriptKinds
    /\ loaderCalls = <<ChosenLoader(transcript)>>
    /\ subtitles \in SubtitleSeqs
    /\ probe \in Probes
    /\ proc = "none"
    /\ stdin = "none"
    /\ blank = -1
    /\ n = 0
    /\ selected = <<>>
    /\ renderCalls = 0
    /\ writes = <<>>
    /\ exc = <<>>

(* line 95: subprocess.Popen(..., stdin=PIPE) *)
Spawn ==
    /\ pc = "constructed"
    /\ proc' = "running"
    /\ stdin' = "open"
    /\ pc' = "alloc"
    /\ UNCHANGED <<transcript, loaderCalls, subtitles, probe, blank, n,
                   selected, renderCalls, writes, exc>>

(* line 95 raising (no encoder binary): nothing was spawned *)
SpawnFail ==
    /\ pc = "constructed"
    /\ exc' = <<"spawn">>
    /\ pc' = "done"
    /\ UNCHANGED <<transcript, loaderCalls, subtitles, probe, proc, stdin,
                   blank, n, selected, renderCalls, writes>>

(* lines 97-99, then entering the try and the for loop *)
AllocBlank ==
    /\ pc = "alloc"
    /\ blank' = BlankFrameBytes(probe.size)
    /\ n' = 0
    /\ pc' = "loop"
    /\ UNCHANGED <<transcript, loaderCalls, subtitles, probe, proc, stdin,
                   selected, renderCalls, writes, exc>>

(* lines 97-99 raising (MemoryError): the statement is outside the try, so *)
(* the exception leaves burn without running the finally block             *)
AllocBlankFail ==
    /\ pc = "alloc"
    /\ exc' = <<"alloc">>
    /\ pc' = "done"
    /\ UNCHANGED <<transcript, loaderCalls, subtitles, probe, proc, stdin,
                   blank, n, selected, renderCalls, writes>>

(* One iteration, lines 103-124, whose render and write succeed *)
FrameWritten ==
    /\ pc = "loop"
    /\ n < probe.frame_count
    /\ ~ SelectionRaises(subtitles)
    /\ LET tok == SelectToken(subtitles, n, probe.fps)
       IN  /\ selected' = Append(selected,
                                 Selection(subtitles, tok, n, probe.fps))
           /\ renderCalls' = IF tok # 0 THEN renderCalls + 1 ELSE renderCalls
           /\ writes' = Append(writes,
                  [n |-> n, ok |-> TRUE,
                   bytes |-> FrameBytes(subtitles, tok, n, probe, blank)])
    /\ n' = n + 1
    /\ UNCHANGED <<pc, transcript, loaderCalls, subtitles, probe, proc, stdin,
                   blank, exc>>

(* One iteration whose selection, lines 103-111, raises: no token is       *)
(* bound, nothing is rendered or written and control goes to the finally   *)
(* block                                                                   *)
SelectFail ==
    /\ pc = "loop"
    /\ n < probe.frame_count
    /\ SelectionRaises(subtitles)
    /\ exc' = <<"select">>
    /\ pc' = "close"
    /\ UNCHANGED <<transcript, loaderCalls, subtitles, probe, proc, stdin,
                   blank, n, selected, renderCalls, writes>>

(* One iteration whose animations.pop(t) raises: it is evaluated as an      *)
(* argument, so _get_text_image is not called; the write is never reached  *)
(* and control goes to the finally block                                   *)
AnimationFail ==
    /\ pc = "loop"
    /\ n < probe.frame_count
    /\ ~ SelectionRaises(subtitles)
    /\ LET tok == SelectToken(subtitles, n, probe.fps)
       IN  /\ tok # 0
           /\ selected' = Append(selected,
                                 Selection(subtitles, tok, n, probe.fps))
    /\ exc' = <<"animation">>
    /\ pc' = "close"
    /\ UNCHANGED <<transcript, loaderCalls, subtitles, probe, proc, stdin,
                   blank, n, renderCalls, writes>>

(* One iteration whose _get_text_image is called and raises (or whose      *)
(* image cannot be serialised, line 120): the write is never reached and   *)
(* control goes to the finally block                                       *)
RenderFail ==
    /\ pc = "loop"
    /\ n < probe.frame_count
    /\ ~ SelectionRaises(subtitles)
    /\ LET tok == SelectToken(subtitles, n, probe.fps)
       IN  /\ tok # 0
           /\ selected' = Append(selected,
                                 Selection(subtitles, tok, n, probe.fps))
    /\ renderCalls' = renderCalls + 1
    /\ exc' = <<"render">>
    /\ pc' = "close"
    /\ UNCHANGED <<transcript, loaderCalls, subtitles, probe, proc, stdin,
                   blank, n, writes>>

(* One iteration whose stdin.write raises (the encoder exited or closed    *)
(* its end of the pipe): control goes to the finally block                 *)
WriteFail ==
    /\ pc = "loop"
    /\ n < probe.frame_count
    /\ ~ SelectionRaises(subtitles)
    /\ LET tok == SelectToken(subtitles, n, probe.fps)
       IN  /\ selected' = Append(selected,
                                 Selection(subtitles, tok, n, probe.fps))
           /\ renderCalls' = IF tok # 0 THEN renderCalls + 1 ELSE renderCalls
           /\ writes' = Append(writes,
                  [n |-> n, ok |-> FALSE,
                   bytes |-> FrameBytes(subtitles, tok, n, probe, blank)])
    /\ exc' = <<"write">>
    /\ pc' = "close"
    /\ UNCHANGED <<transcript, loaderCalls, subtitles, probe, proc, stdin,
                   blank, n>>

(* Variant: the loop left one frame early (range(frame_count - 1)) *)
LoopExitEarly ==
    /\ pc = "loop"
    /\ n >= probe.frame_count - 1
    /\ pc' = "close"
    /\ UNCHANGED <<transcript, loaderCalls, subtitles, probe, proc, stdin,
                   blank, n, selected, renderCalls, writes, exc>>

(* range(frame_count) exhausted: the try block ends normally *)
LoopExit ==
    /\ pc = "loop"
    /\ n >= probe.frame_count
    /\ pc' = "close"
    /\ UNCHANGED <<transcript, loaderCalls, subtitles, probe, proc, stdin,
                   blank, n, selected, renderCalls, writes, exc>>

(* line 126: stdin.close() succeeds *)
FinallyClose ==
    /\ pc = "close"
    /\ stdin' = "closed"
    /\ pc' = "wait"
    /\ UNCHANGED <<transcript, loaderCalls, subtitles, probe, proc, blank, n,
                   selected, renderCalls, writes, exc>>

(* line 126: stdin.close() flushes buffered bytes into a broken pipe and   *)
(* raises; the descriptor is closed all the same, line 127 is skipped and  *)
(* the new exception leaves burn with the one in flight as its context     *)
FinallyCloseFail ==
    /\ pc = "close"
    /\ stdin' = "closed"
    /\ exc' = <<"close">> \o exc
    /\ pc' = "done"
    /\ UNCHANGED <<transcript, loaderCalls, subtitles, probe, proc, blank, n,
                   selected, renderCalls, writes>>

(* line 127: wait() returns; burn returns or re-raises the exception *)
FinallyWait ==
    /\ pc = "wait"
    /\ proc' = "waited"
    /\ pc' = "done"
    /\ UNCHANGED <<transcript, loaderCalls, subtitles, probe, stdin, blank, n,
                   selected, renderCalls, writes, exc>>

Next ==
    \/ Spawn
    \/ SpawnFail
    \/ AllocBlank
    \/ AllocBlankFail
    \/ FrameWritten
    \/ SelectFail
    \/ AnimationFail
    \/ RenderFail
    \/ WriteFail
    \/ LoopExit
    \/ FinallyClose
    \/ FinallyCloseFail
    \/ FinallyWait

Spec == Init /\ [][Next]_vars

(* How burn ended *)
Returned == pc = "done" /\ exc = <<>>

Raised == pc = "done" /\ exc # <<>>

----------------------------------------------------------------------------
(* Vocabulary of the properties, stated from the frame rate and the start  *)
(* times alone.                                                            *)

Idx == 1..Len(subtitles)

RoundedStart(i) == RoundHalfEven(subtitles[i].start * probe.fps, StartUnit)

Started(k) == {i \in Idx : RoundedStart(i) <= k}

InChain(e) == \E i \in 1..Len(exc) : exc[i] = e

LoopEntered == pc \in {"loop", "close", "wait", "done"} /\ blank # -1

LoopLeft == pc \in {"close", "wait", "done"} /\ blank # -1

Written == {k \in 1..Len(writes) : writes[k].ok}

Renders(w, i) ==
    /\ w.bytes.kind = "text"
    /\ w.bytes.text = subtitles[i].text
    /\ w.bytes.start = subtitles[i].start

IsBlankFrame(w) == w.bytes.kind = "blank" /\ w.bytes.len = blank

----------------------------------------------------------------------------
(* C1: once burn has spawned the encoder, every way burn ends leaves the   *)
(* encoder's input stream closed and the subprocess waited on.             *)
C1_CleanupOnEveryExit ==
    (pc = "done" /\ proc # "none") => (stdin = "closed" /\ proc = "waited")

(* C2: the entry selected for frame n has its rounded start frame <= n and *)
(* the greatest start among the entries with rounded start frame <= n;     *)
(* nothing is selected exactly when no entry has rounded start frame <= n. *)
C2_SelectsLatestStarted ==
    \A k \in 1..Len(selected) :
        LET s == selected[k].tok
            Q == Started(k - 1)
        IN  /\ (s = 0) <=> (Q = {})
            /\ s # 0 =>
                 /\ s \in Q
                 /\ \A j \in Q : subtitles[j].start <= subtitles[s].start

(* C2 witness: a frame for which an earlier-listed entry with the greater  *)
(* start was chosen over a later-listed started entry, after a frame with  *)
(* no selection.                                                           *)
C2_Witness ==
    /\ pc = "done"
    /\ \E k \in 1..Len(selected) :
          /\ selected[k].tok # 0
          /\ \E j \in Started(k - 1) :
                /\ j > selected[k].tok
                /\ subtitles[j].start < subtitles[selected[k].tok].start
    /\ \E k \in 1..Len(selected) : selected[k].tok = 0

(* C3 as stated: for entries i, j with starts S < S' and no other entry    *)
(* starting between them or after S', every written frame n with           *)
(* F <= n < F' renders entry i and every written frame n >= F' renders j.  *)
C3_ConsecutiveAsStated ==
    \A i, j \in Idx :
        ( /\ subtitles[i].start < subtitles[j].start
          /\ \A k \in Idx \ {i, j} :
                /\ ~ ( /\ subtitles[i].start < subtitles[k].start
                       /\ subtitles[k].start < subtitles[j].start )
                /\ ~ (subtitles[k].start > subtitles[j].start) )
        => \A w \in Written :
              /\ (RoundedStart(i) <= writes[w].n /\ writes[w].n < RoundedStart(j))
                    => Renders(writes[w], i)
              /\ (writes[w].n >= RoundedStart(j)) => Renders(writes[w], j)

(* C3 amended: the same when, in addition, no other entry starts exactly   *)
(* at S or at S' (every other entry starts before S).                      *)
C3_ConsecutiveNoTies ==
    \A i, j \in Idx :
        ( /\ subtitles[i].start < subtitles[j].start
          /\ \A k \in Idx \ {i, j} : subtitles[k].start < subtitles[i].start )
        => \A w \in Written :
              /\ (RoundedStart(i) <= writes[w].n /\ writes[w].n < RoundedStart(j))
                    => Renders(writes[w], i)
              /\ (writes[w].n >= RoundedStart(j)) => Renders(writes[w], j)

(* C3 witness: a finished burn with an earlier entry, written frames in    *)
(* [F, F') and written frames at or after F'.                              *)
C3_Witness ==
    /\ pc = "done"
    /\ \E i, j \in Idx :
          /\ subtitles[i].start < subtitles[j].start
          /\ \A k \in Idx \ {i, j} : subtitles[k].start < subtitles[i].start
          /\ Idx \ {i, j} # {}
          /\ \E w \in Written :
                RoundedStart(i) <= writes[w].n /\ writes[w].n < RoundedStart(j)
          /\ \E w \in Written : writes[w].n >= RoundedStart(j)

(* C4: a frame whose index is below the rounded start frame of every entry *)
(* is written as the precomputed blank frame, with no text image rendered. *)
C4_BlankBeforeFirstStart ==
    \A w \in Written :
        (\A i \in Idx : writes[w].n < RoundedStart(i))
        => /\ IsBlankFrame(writes[w])
           /\ selected[w].tok = 0

(* C4 witness: a non-empty transcript and a written frame before every     *)
(* start frame, followed by a rendered one.                                *)
C4_Witness ==
    /\ pc = "done"
    /\ Idx # {}
    /\ \E w \in Written : \A i \in Idx : writes[w].n < RoundedStart(i)
    /\ \E w \in Written : writes[w].bytes.kind = "text"

(* C5: with an empty transcript every written frame is the precomputed     *)
(* blank buffer of width*height*4 zero bytes and the renderer is not       *)
(* called.                                                                 *)
C5_EmptyTranscriptAllBlank ==
    (subtitles = <<>> /\ LoopEntered)
    => /\ renderCalls = 0
       /\ blank = probe.size[1] * probe.size[2] * 4
       /\ \A k \in 1..Len(writes) : IsBlankFrame(writes[k])

(* C5 witness: a finished burn of an empty transcript that wrote frames. *)
C5_Witness ==
    /\ pc = "done"
    /\ subtitles = <<>>
    /\ Len(writes) >= 2
    /\ Written = 1..Len(writes)

(* C6: with the single entry starting at 0.0 every written frame renders   *)
(* it; in general, once a frame has reached some entry's start frame no    *)
(* later frame is blank, and the selected start never decreases.           *)
C6_SelectionMonotone ==
    /\ (Len(subtitles) = 1 /\ subtitles[1].start = 0)
          => \A k \in 1..Len(writes) : Renders(writes[k], 1)
    /\ \A k, m \in 1..Len(selected) :
          (k < m /\ Started(k - 1) # {})
          => /\ selected[m].tok # 0
             /\ selected[k].tok # 0
             /\ subtitles[selected[k].tok].start
                   <= subtitles[selected[m].tok].start
    /\ \A k, m \in 1..Len(writes) :
          (k < m /\ Started(writes[k].n) # {})
          => writes[m].bytes.kind = "text"

(* C6 witness: a burn whose selection went from one entry to a later one   *)
(* and stayed there.                                                       *)
C6_Witness ==
    /\ pc = "done"
    /\ Len(selected) >= 3
    /\ selected[1].tok # 0
    /\ selected[2].tok # selected[1].tok
    /\ selected[3].tok = selected[2].tok
    /\ Written = 1..Len(writes)

(* C7: a failed write of frame n is not retried, no frame after n is       *)
(* written, and burn ends by raising that write's error to its caller.     *)
C7_WriteFailureIsFatal ==
    \A k \in 1..Len(writes) :
        ~ writes[k].ok
        => /\ k = Len(writes)
           /\ LoopLeft
           /\ ~ Returned
           /\ pc = "done" => exc[1] = "write"

(* C9 as stated: when no write fails, a burn that entered the loop ends    *)
(* with exactly frame_count frames written, frame k-1 as the k-th.         *)
C9_AllFramesAsStated ==
    (pc = "done" /\ LoopEntered /\ Written = 1..Len(writes))
    => /\ Len(writes) = probe.frame_count
       /\ \A k \in 1..Len(writes) : writes[k].n = k - 1

(* C9 amended: burn writes frames in strictly increasing index order      *)
(* 0, 1, ..., one write per index and never more than frame_count. When no *)
(* write fails, the frames written are exactly 0..frame_count-1 if burn    *)
(* returns normally, and exactly 0..n-1 if an exception raised while       *)
(* frame n was being selected, animated or rendered ended the loop, in     *)
(* which case burn raises. No write happens once the stream is closed, and *)
(* the stream is closed before the subprocess is waited on.                *)
C9_AllFramesInOrder ==
    /\ [] ( /\ \A k \in 1..Len(writes) : writes[k].n = k - 1
            /\ Len(writes) <= probe.frame_count
            /\ (LoopLeft /\ Written = 1..Len(writes))
                  => /\ Len(writes) = n
                     /\ exc = <<>> => n = probe.frame_count
                     /\ n < probe.frame_count
                           => /\ exc # <<>>
                              /\ exc[Len(exc)] \in
                                    {"select", "animation", "render"}
                              /\ ~ Returned
            /\ Returned
                  => (LoopEntered
                        => /\ Len(writes) = probe.frame_count
                           /\ Written = 1..Len(writes))
            /\ proc = "waited" => stdin = "closed" )
    /\ [][stdin = "closed" => writes' = writes]_vars

(* C9 witness: a burn that returned after writing several frames. *)
C9_Witness ==
    /\ Returned
    /\ proc = "waited"
    /\ Len(writes) >= 2
    /\ \E k \in 1..Len(writes) : writes[k].bytes.kind = "text"

(* C10: the elapsed time handed to the animation for frame n is            *)
(* (n - round(start*fps)) / fps for the selected entry, and is not         *)
(* negative.                                                               *)
C10_ElapsedNonNegative ==
    \A k \in 1..Len(selected) :
        selected[k].tok # 0
        => /\ selected[k].t.num = (k - 1) - RoundedStart(selected[k].tok)
           /\ selected[k].t.den = probe.fps
           /\ selected[k].t.num >= 0
           /\ selected[k].t.den > 0

(* C10 witness: a render with positive elapsed time of an entry whose      *)
(* start * fps lies half way between two frames, and one of an entry with  *)
(* a negative start.                                                       *)
C10_Witness ==
    /\ \E k \in 1..Len(selected) :
          /\ selected[k].tok # 0
          /\ selected[k].t.num > 0
          /\ (subtitles[selected[k].tok].start * probe.fps) % StartUnit # 0
    /\ \E k \in 1..Len(selected) :
          /\ selected[k].tok # 0
          /\ subtitles[selected[k].tok].start < 0

----------------------------------------------------------------------------
(* C8: the constructor uses exactly one subtitle source: the file loader   *)
(* for a path, the raw-transcript loader for a raw transcript, and the     *)
(* transcription engine when and only when no transcript is given; a       *)
(* failing loader leaves no subtitle sequence behind.                      *)
C8_OneSourceByArgument ==
    loaderCalls # <<>>
    => /\ Len(loaderCalls) = 1
       /\ transcript = "path" => loaderCalls[1] = "load_subtitles_from_file"
       /\ transcript = "raw"
             => loaderCalls[1] = "load_subtitles_from_raw_transcript"
       /\ (loaderCalls[1] = "transcribe") <=> (transcript = "none")
       /\ (pc = "ctor_raised" /\ exc = <<"loader">>) => subtitles = <<>>

====
